---- MODULE Spec2Model ----
(***************************************************************************)
(* HydrationCalculator of odnpLab/hydration/hydration.py as a state        *)
(* machine.  A caller holds four numpy arrays and a HydrationParameter and *)
(* constructs calculators from them, one after the other (the program is   *)
(* single threaded).  The constructor is cut at its calls: validation,     *)
(* _setT1p, the saturation fit inside _calcODNP, the root solve, and the   *)
(* assembly of the result mapping.                                         *)
(*                                                                         *)
(* Numbers are exact rationals <<n, d>> (d > 0, lowest terms) extended     *)
(* with the three non-finite float64 values: <<1, 0>> is +inf, <<-1, 0>>   *)
(* is -inf and <<0, 0>> is NaN.  numpy arithmetic never raises on a zero   *)
(* divisor, it yields one of those values.                                 *)
(***************************************************************************)
EXTENDS Integers, Sequences, FiniteSets, TLC

VARIABLES heap, hp, env, self, pc, err, calls, frame, lsqMemo, rootMemo,
          disk, dirFiles, dataDict, imported, tpc

vars == <<heap, hp, env, self, pc, err, calls, frame, lsqMemo, rootMemo,
          disk, dirFiles, dataDict, imported, tpc>>

\* the variables of dnpImport/topspin.py: the directory tree under path, the
\* sub-directories import_topspin_dir still has to visit, its dictionary, what
\* each import_topspin call did, and where import_topspin_dir stands
topspin == <<disk, dirFiles, dataDict, imported, tpc>>

\* a path that does not exist
NoPath == [t |-> "nopath"]

\* no call of import_topspin_dir
TopspinIdle ==
    /\ disk = NoPath
    /\ dirFiles = {}
    /\ dataDict = {}
    /\ imported = {}
    /\ tpc = "idle"

(***************************************************************************)
(* float64 values as extended rationals                                    *)
(***************************************************************************)
Abs(n) == IF n < 0 THEN -n ELSE n

Sign(n) == IF n < 0 THEN -1 ELSE IF n = 0 THEN 0 ELSE 1

RECURSIVE GCD(_, _)
GCD(a, b) == IF b = 0 THEN a ELSE GCD(b, a % b)

Norm(n, d) ==
    IF d = 0 THEN <<Sign(n), 0>>
    ELSE LET g == GCD(Abs(n), Abs(d))
             s == IF d < 0 THEN -1 ELSE 1
         IN  <<(s * n) \div g, (s * d) \div g>>

Q(n, d) == Norm(n, d)

Zero == <<0, 1>>

One == <<1, 1>>

NaN == <<0, 0>>

PosInf == <<1, 0>>

IsFinite(a) == a[2] # 0

IsNaN(a) == a = NaN

RNeg(a) == <<-a[1], a[2]>>

RAdd(a, b) ==
    IF IsNaN(a) \/ IsNaN(b) THEN NaN
    ELSE IF ~IsFinite(a) THEN (IF ~IsFinite(b) /\ a # b THEN NaN ELSE a)
    ELSE IF ~IsFinite(b) THEN b
    ELSE LET g == GCD(a[2], b[2])
         IN  Norm(a[1] * (b[2] \div g) + b[1] * (a[2] \div g), (a[2] \div g) * b[2])

RSub(a, b) == RAdd(a, RNeg(b))

RMul(a, b) ==
    IF ~IsFinite(a) \/ ~IsFinite(b) THEN <<Sign(a[1]) * Sign(b[1]), 0>>
    ELSE LET g1 == GCD(Abs(a[1]), b[2])
             g2 == GCD(Abs(b[1]), a[2])
         IN  Norm((a[1] \div g1) * (b[1] \div g2), (a[2] \div g2) * (b[2] \div g1))

RInv(a) == Norm(a[2], a[1])

RDiv(a, b) == RMul(a, RInv(b))

\* n1/d1 < n2/d2 for d1, d2 > 0, by the integer parts and then the reciprocals of the
\* fractional parts, so that no product is formed
RECURSIVE FracLt(_, _, _, _)
FracLt(n1, d1, n2, d2) ==
    IF n1 \div d1 # n2 \div d2 THEN n1 \div d1 < n2 \div d2
    ELSE IF n2 % d2 = 0 THEN FALSE
    ELSE IF n1 % d1 = 0 THEN TRUE
    ELSE FracLt(d2, n2 % d2, d1, n1 % d1)

RLt(a, b) ==
    IF IsNaN(a) \/ IsNaN(b) \/ a = b THEN FALSE
    ELSE IF ~IsFinite(a) THEN a[1] < 0
    ELSE IF ~IsFinite(b) THEN b[1] > 0
    ELSE FracLt(a[1], a[2], b[1], b[2])

RLe(a, b) == a = b \/ RLt(a, b)

(***************************************************************************)
(* numpy arrays: a shape and the elements in row-major order.  Shape <<>>  *)
(* is a 0-dimensional array (or a numpy scalar).                           *)
(***************************************************************************)
\* the tuple <<F(i), ..., F(n)>>, its elements evaluated once
RECURSIVE Tab(_, _, _)
Tab(F(_), i, n) == IF i > n THEN <<>> ELSE <<F(i)>> \o Tab(F, i + 1, n)

RECURSIVE Prod(_)
Prod(s) == IF s = <<>> THEN 1 ELSE Head(s) * Prod(Tail(s))

ND(shape, data) == [t |-> "ndarray", shape |-> shape, data |-> data]

Scalar(v) == ND(<<>>, <<v>>)

Vec(data) == ND(<<Len(data)>>, data)

ndim(x) == Len(x.shape)

size(x) == Prod(x.shape)

\* numpy broadcasting of two arrays of at most one dimension
Broadcastable(x, y) ==
    \/ size(x) = 1
    \/ size(y) = 1
    \/ x.shape = y.shape

BShape(x, y) ==
    IF ndim(x) = 0 THEN y.shape
    ELSE IF ndim(y) = 0 THEN x.shape
    ELSE IF size(x) = 1 THEN y.shape
    ELSE x.shape

At(x, i) == IF size(x) = 1 THEN x.data[1] ELSE x.data[i]

Map2(Op(_, _), x, y) ==
    LET sh == BShape(x, y)
    IN  ND(sh, Tab(LAMBDA i : Op(At(x, i), At(y, i)), 1, Prod(sh)))

NpAdd(x, y) == Map2(RAdd, x, y)

NpSub(x, y) == Map2(RSub, x, y)

NpMul(x, y) == Map2(RMul, x, y)

NpDiv(x, y) == Map2(RDiv, x, y)

AllFinite(x) == \A i \in 1..size(x) : IsFinite(x.data[i])

(***************************************************************************)
(* numpy.polyfit and numpy.polyval, as called by _setT1p.  polyfit scales  *)
(* the columns of the Vandermonde matrix by their norms and returns the    *)
(* minimum-norm least-squares solution of the scaled system, unscaled.     *)
(* With distinct abscissae that is the solution of the normal equations    *)
(* when there are at least deg+1 points, and c = W A^T (A W A^T)^-1 y with *)
(* W = diag(1/scale^2) when there are fewer.  A column of zeros has scale  *)
(* 0 and turns into NaN (0/0); LAPACK then either reports no convergence   *)
(* (LinAlgError) or hands NaN coefficients back.                           *)
(***************************************************************************)
RECURSIVE RPow(_, _)
RPow(a, n) == IF n = 0 THEN One ELSE RMul(a, RPow(a, n - 1))

RECURSIVE RSum(_)
RSum(s) == IF s = <<>> THEN Zero ELSE RAdd(Head(s), RSum(Tail(s)))

Dot(u, v) == RSum(Tab(LAMBDA i : RMul(u[i], v[i]), 1, Len(u)))

Vander(x, order) == Tab(LAMBDA i : Tab(LAMBDA j : RPow(x[i], order - j), 1, order), 1, Len(x))

Column(A, j) == Tab(LAMBDA i : A[i][j], 1, Len(A))

DropCol(row, j) == Tab(LAMBDA c : IF c < j THEN row[c] ELSE row[c + 1], 1, Len(row) - 1)

RECURSIVE Det(_)
Det(M) ==
    IF Len(M) = 0 THEN One
    ELSE IF Len(M) = 1 THEN M[1][1]
    ELSE RSum(Tab(LAMBDA j :
                    RMul(IF j % 2 = 1 THEN M[1][j] ELSE RNeg(M[1][j]),
                         Det(Tab(LAMBDA r : DropCol(M[r + 1], j), 1, Len(M) - 1))),
                  1, Len(M)))

\* the solution of M c = b by Cramer's rule, M square and regular
CramerColumn(M, b, j) ==
    Tab(LAMBDA r : Tab(LAMBDA c : IF c = j THEN b[r] ELSE M[r][c], 1, Len(M)), 1, Len(M))

SolveWith(M, b, d) == Tab(LAMBDA j : RDiv(Det(CramerColumn(M, b, j)), d), 1, Len(M))

Solve(M, b) == SolveWith(M, b, Det(M))

\* at least order points: the normal equations A^T A c = A^T y
NormalSolve(A, y, order) ==
    Solve(Tab(LAMBDA j : Tab(LAMBDA k : Dot(Column(A, j), Column(A, k)), 1, order), 1, order),
          Tab(LAMBDA j : Dot(Column(A, j), y), 1, order))

\* fewer points: c = W A^T w with (A W A^T) w = y
Gram(A, W, m, order) ==
    Tab(LAMBDA r :
          Tab(LAMBDA s : RSum(Tab(LAMBDA j : RMul(W[j], RMul(A[r][j], A[s][j])), 1, order)),
              1, m),
        1, m)

MinNormFrom(A, W, w, order) == Tab(LAMBDA j : RMul(W[j], Dot(Column(A, j), w)), 1, order)

MinNormWith(A, y, W, m, order) == MinNormFrom(A, W, Solve(Gram(A, W, m, order), y), order)

\* the squared norms of the columns of A
ColumnScale(A, order) == Tab(LAMBDA j : Dot(Column(A, j), Column(A, j)), 1, order)

MinNormSolve(A, y, sc, m, order) ==
    MinNormWith(A, y, Tab(LAMBDA j : RInv(sc[j]), 1, order), m, order)

LstsqScaled(A, y, sc, m, order, lapack) ==
    IF \E j \in 1..order : sc[j] = Zero
    THEN IF lapack = "LinAlgError"
         THEN [exc |-> "LinAlgError", p |-> <<>>]
         ELSE [exc |-> "none", p |-> Tab(LAMBDA j : NaN, 1, order)]
    ELSE IF m >= order
    THEN [exc |-> "none", p |-> NormalSolve(A, y, order)]
    ELSE [exc |-> "none", p |-> MinNormSolve(A, y, sc, m, order)]

LstsqVander(A, y, order, lapack) ==
    LstsqScaled(A, y, ColumnScale(A, order), Len(A), order, lapack)

\* np.polyfit(x, y, deg); lapack is what LAPACK does with a NaN matrix
polyfit(x, y, deg, lapack) ==
    IF ndim(x) # 1 THEN [exc |-> "TypeError", p |-> <<>>]
    ELSE IF size(x) = 0 THEN [exc |-> "TypeError", p |-> <<>>]
    ELSE IF ndim(y) < 1 \/ ndim(y) > 2 THEN [exc |-> "TypeError", p |-> <<>>]
    ELSE IF x.shape[1] # y.shape[1] THEN [exc |-> "TypeError", p |-> <<>>]
    ELSE LstsqVander(Vander(x.data, deg + 1), y.data, deg + 1, lapack)

RECURSIVE Horner(_, _, _)
Horner(p, x, acc) ==
    IF p = <<>> THEN acc ELSE Horner(Tail(p), x, RAdd(RMul(acc, x), Head(p)))

\* np.polyval(p, x): same shape as x
polyval(p, x) == ND(x.shape, Tab(LAMBDA i : Horner(p, x.data[i], Zero), 1, size(x)))

(***************************************************************************)
(* Python values of the instance attributes                                *)
(***************************************************************************)
None == [t |-> "None"]

Unassigned == [t |-> "unassigned"]

NoErr == [cls |-> "none", at |-> "none", msg |-> "none"]

Exc(cls, at, msg) == [cls |-> cls, at |-> at, msg |-> msg]

S(n, d) == Scalar(Q(n, d))

(***************************************************************************)
(* HydrationCalculator.__init__, lines 45-50: the message of the           *)
(* ValueError the validation raises, "none" when it raises nothing         *)
(***************************************************************************)
ValidateDimensionsOnly(T1, T1_power, E, E_power) ==
    IF \E x \in {T1, T1_power, E, E_power} : ndim(x) > 1
    THEN "T1, T1_power, E and E_power must be 1 dimension"
    ELSE "none"

Validate(T1, T1_power, E, E_power) ==
    IF \E x \in {T1, T1_power, E, E_power} : ndim(x) > 1
    THEN "T1, T1_power, E and E_power must be 1 dimension"
    ELSE IF size(T1) # size(T1_power)
    THEN "T1 and T1_power must have same length"
    ELSE IF size(E) # size(E_power)
    THEN "E and E_power must have same length"
    ELSE "none"

(***************************************************************************)
(* HydrationCalculator._setT1p, lines 68-100.  T10, T100 and slC are       *)
(* positive Python floats, the series are numpy arrays.                    *)
(***************************************************************************)
\* T1p[-1] and T1p[0] raise IndexError on a 0-dimensional or an empty array
Indexable(x) == ndim(x) >= 1 /\ size(x) >= 1

First(x) == Scalar(x.data[1])

Last(x) == Scalar(x.data[size(x)])

\* line 81
krp(T1p, T1power, delT1w, T1w, kHHc, slCM) ==
    NpDiv(NpSub(NpSub(NpDiv(S(1, 1), T1p),
                      NpDiv(S(1, 1), NpAdd(T1w, NpMul(delT1w, T1power)))),
                kHHc),
          slCM)

\* line 86
intT1_2ord(flinear, power, delT1w, T1w, kHHc, slCM) ==
    NpDiv(S(1, 1),
          NpAdd(NpAdd(NpMul(slCM, flinear),
                      NpDiv(S(1, 1), NpAdd(T1w, NpMul(delT1w, power)))),
                kHHc))

SecondOrderEval(fit, power, delT1w, T1w, kHHc, slCM) ==
    IF fit.exc # "none" THEN [exc |-> fit.exc, T1fit |-> None]
    ELSE [exc |-> "none",
          T1fit |-> intT1_2ord(polyval(fit.p, power), power, delT1w, T1w, kHHc, slCM)]

\* lines 83-86, with delT1w, T1w, kHH*(macroC/1e6) and slC/1e6 of lines 76-80
SecondOrderWith(T1p, T1power, power, lapack, delT1w, T1w, kHHc, slCM) ==
    SecondOrderEval(polyfit(T1power, krp(T1p, T1power, delT1w, T1w, kHHc, slCM), 2, lapack),
                    power, delT1w, T1w, kHHc, slCM)

\* line 80 times (macroC/1e6), as lines 81 and 86 use it
kHHc(h) ==
    NpMul(NpDiv(NpSub(NpDiv(S(1, 1), Scalar(h.T10)), NpDiv(S(1, 1), Scalar(h.T100))),
                NpDiv(Scalar(h.slC), S(1000000, 1))),
          NpDiv(Scalar(h.slC), S(1000000, 1)))

\* line 76
delT1w(T1p) == NpSub(Last(T1p), First(T1p))

SecondOrderFit(T1p, T1power, power, h, lapack) ==
    IF ~Indexable(T1p) THEN [exc |-> "IndexError", T1fit |-> None]
    \* line 80: hp.slC is a Python float, and a float division by 0.0 raises
    ELSE IF h.slC = Zero THEN [exc |-> "ZeroDivisionError", T1fit |-> None]
    ELSE SecondOrderWith(T1p, T1power, power, lapack, delT1w(T1p), Scalar(h.T100),
                         kHHc(h), NpDiv(Scalar(h.slC), S(1000000, 1)))

\* line 90
linearT1(T1p, T10, T100) ==
    NpDiv(S(1, 1), NpAdd(NpSub(NpDiv(S(1, 1), T1p), NpDiv(S(1, 1), T10)), NpDiv(S(1, 1), T100)))

\* line 95 with the signs of the two terms exchanged
intT1_linear_exchanged(flinear, T10, T100) ==
    NpDiv(flinear, NpAdd(NpSub(S(1, 1), NpDiv(flinear, T10)), NpDiv(flinear, T100)))

\* line 95
intT1_linear(flinear, T10, T100) ==
    NpDiv(flinear, NpSub(NpAdd(S(1, 1), NpDiv(flinear, T10)), NpDiv(flinear, T100)))

LinearEval(fit, power, T10, T100) ==
    IF fit.exc # "none" THEN [exc |-> fit.exc, T1fit |-> None]
    ELSE [exc |-> "none", T1fit |-> intT1_linear(polyval(fit.p, power), T10, T100)]

LinearFit(T1p, T1power, power, h, lapack) ==
    LinearEval(polyfit(T1power, linearT1(T1p, Scalar(h.T10), Scalar(h.T100)), 1, lapack),
               power, Scalar(h.T10), Scalar(h.T100))

setT1p(T1p, T1power, power, h, lapack) ==
    IF h.fitopt = "2ord" THEN SecondOrderFit(T1p, T1power, power, h, lapack)
    ELSE IF h.fitopt = "linear" THEN LinearFit(T1p, T1power, power, h, lapack)
    ELSE [exc |-> "Exception", T1fit |-> None]

(***************************************************************************)
(* HydrationCalculator._calcODNP, lines 116-153: the saturation factor and *)
(* the array of k_sigma*s(p) handed to getksigsmax                         *)
(***************************************************************************)
\* the free spin probe with 3 - 3*slC*1e-6*198.7 in the denominator
s_max_sign_slip(h) ==
    IF h.smaxMod = "tethered" THEN S(1, 1)
    ELSE NpSub(S(1, 1),
               NpDiv(S(2, 1),
                     NpSub(S(3, 1),
                           NpMul(S(3, 1),
                                 NpMul(NpMul(Scalar(h.slC), S(1, 1000000)), S(1987, 10))))))

s_max_free_only(h) ==
    NpSub(S(1, 1),
          NpDiv(S(2, 1),
                NpAdd(S(3, 1),
                      NpMul(S(3, 1),
                            NpMul(NpMul(Scalar(h.slC), S(1, 1000000)), S(1987, 10))))))

s_max(h) ==
    IF h.smaxMod = "tethered" THEN S(1, 1)
    ELSE NpSub(S(1, 1),
               NpDiv(S(2, 1),
                     NpAdd(S(3, 1),
                           NpMul(S(3, 1),
                                 NpMul(NpMul(Scalar(h.slC), S(1, 1000000)), S(1987, 10))))))

\* line 149, ksig_sp = (1 - Ep) / (slC * wRatio * T1p), carried in units of 1/wRatio:
\* wRatio = omega_e / omega_H = 1.76085963023e5 / 267.52218744 (the positive field
\* cancels) is a positive constant, and the quotient by it does not fit 32-bit terms
ksig_sp(Ep, T1p, h) == NpDiv(NpSub(S(1, 1), Ep), NpMul(Scalar(h.slC), T1p))

(***************************************************************************)
(* HydrationCalculator.getksigsmax, lines 316-342.  What happens before    *)
(* the Levenberg-Marquardt iteration starts is computed: max(power), the   *)
(* residuals at x0 = [75, max(power)/2], and least_squares' own checks of  *)
(* them.  The iteration is a library call: its outcome (success flag and   *)
(* x) is drawn from LsqOutcomes, the same outcome for the same samples.    *)
(***************************************************************************)
RECURSIVE MaxOf(_)
MaxOf(sq) ==
    IF Len(sq) = 1 THEN sq[1]
    ELSE LET m == MaxOf(Tail(sq)) IN IF RLt(m, Head(sq)) THEN Head(sq) ELSE m

\* the model curve of residual(), (ksig_smax * p) / (p_12 + p)
ksigsp_model(x, p) == NpDiv(NpMul(Scalar(x[1]), p), NpAdd(Scalar(x[2]), p))

\* residual() returns ksigsp_fit - ksig_sp: its shape, and whether every element is
\* finite (a difference of float64 values of these magnitudes is finite iff both are)
residualShape(x, p, ksigsp) == BShape(ksigsp_model(x, p), ksigsp)

residualFinite(x, p, ksigsp) == AllFinite(ksigsp_model(x, p)) /\ AllFinite(ksigsp)

\* the exception raised before the iteration, "none" if it starts
LsqRejects(ksigsp, power) ==
    IF ndim(power) = 0 THEN "TypeError"
    ELSE IF size(power) = 0 THEN "ValueError"
    ELSE LET x0 == <<Q(75, 1), RDiv(MaxOf(power.data), Q(2, 1))>>
             sh == residualShape(x0, power, ksigsp)
         IN  IF Len(sh) # 1 THEN "ValueError"
             ELSE IF ~residualFinite(x0, power, ksigsp) THEN "ValueError"
             ELSE IF Prod(sh) < 2 THEN "ValueError"
             ELSE "none"

\* least_squares minimises a sum over the samples: its input is their set
LsqKey(ksigsp, power) == {<<At(power, i), At(ksigsp, i)>> : i \in 1..size(ksigsp)}

KsigSmaxFits == {Q(3, 20000), Q(3, 4), Zero}

P12Fits == {Q(1, 2), Q(-1, 2)}

\* line 341, assert result.success
success_stripped(result) == TRUE

success(result) == result.success

LsqOutcomes ==
    {[success |-> FALSE, x |-> <<Zero, Zero>>]}
        \cup {[success |-> TRUE, x |-> <<k, q>>] : k \in KsigSmaxFits, q \in P12Fits}

(***************************************************************************)
(* HydrationCalculator.getTcorr, lines 249-305.  get_ksi is tabulated at   *)
(* the two ends of the bracket for field = 348.5 mT.  brentq raises        *)
(* ValueError when f has the same sign at both ends; otherwise its outcome *)
(* (converged flag and root) is drawn from RootOutcomes, the same outcome  *)
(* for the same ksi.  A NaN ksi makes every f value NaN: newer scipy       *)
(* raises ValueError on the first one, older scipy bisects towards 0 and   *)
(* reports a converged root below the bracket.                             *)
(***************************************************************************)
BracketLo == Q(1, 1)

BracketHi == Q(100000, 1)

\* where the bisection of older scipy ends when every function value is NaN
\* (about 1e-12; get_ksi tends to (6 - 1)/(6 + 3 + 1) there)
BelowBracket == Q(1, 1000)

\* get_ksi at 348.5 mT, at the correlation times it is tabulated for
get_ksi(tcorr) ==
    IF tcorr = BracketLo THEN Q(4793, 10000)
    ELSE IF tcorr = BracketHi THEN Q(107, 10000000)
    ELSE IF tcorr = BelowBracket THEN Q(1, 2)
    ELSE NaN

\* the sign of f(t) = get_ksi(t) - ksi
SignF(t, ksi) ==
    IF RLt(ksi, get_ksi(t)) THEN 1 ELSE IF RLt(get_ksi(t), ksi) THEN -1 ELSE 0

\* brentq: f(a) * f(b) > 0
SameSign(ksi) == SignF(BracketLo, ksi) * SignF(BracketHi, ksi) > 0

TcorrRoots == {Q(54, 1), Q(100, 1)}

RootOutcomes(ksi) ==
    IF get_ksi(BracketLo) = ksi THEN {[converged |-> TRUE, root |-> BracketLo]}
    ELSE IF get_ksi(BracketHi) = ksi THEN {[converged |-> TRUE, root |-> BracketHi]}
    ELSE {[converged |-> FALSE, root |-> Zero]}
            \cup {[converged |-> TRUE, root |-> r] : r \in TcorrRoots}

NaNOutcomes == {"ValueError", "root"}

\* line 304, assert result.converged
converged(result) == result.converged

(***************************************************************************)
(* The caller's inputs.  A series is measured at distinct powers; T1At and *)
(* EAt are the measured values (T1 = 1.0, 0.9, 0.8 s and E = 1.0, 0.5, 0.0 *)
(* at 0, 1, 2 W).  DataInputs are well-shaped series in any order of       *)
(* measurement.  ShapeInputs are arrays of every shape the validation      *)
(* distinguishes: power arrays 0, 1, 2, ... W, and T1 and E arrays that    *)
(* repeat the sample taken at 0 W.                                         *)
(***************************************************************************)
MaxLen == 3

Powers == 0..2

Names == {"T1", "T1_power", "E", "E_power"}

Calcs == {1, 2}

T1At(p) == Q(10 - p, 10)

EAt(p) == Q(2 - p, 2)

PowerSeqs ==
    {sq \in UNION {[1..k -> Powers] : k \in 0..MaxLen} :
        \A i, j \in DOMAIN sq : sq[i] = sq[j] => i = j}

Measured(kind, p) ==
    IF kind = "T1" THEN T1At(p) ELSE IF kind = "E" THEN EAt(p) ELSE Q(p, 1)

SeriesOf(kind, ps) == Vec(Tab(LAMBDA i : Measured(kind, ps[i]), 1, Len(ps)))

DataInputs ==
    {[n \in Names |->
        SeriesOf(n, IF n \in {"T1", "T1_power"} THEN ps ELSE qs)] : ps, qs \in PowerSeqs}

Shapes == {<<>>} \cup {<<k>> : k \in 0..MaxLen} \cup {<<1, 2>>}

ShapeInputs ==
    {[n \in Names |->
        ND(sh[n], Tab(LAMBDA i : IF n \in {"T1", "E"} THEN Measured(n, 0)
                                 ELSE Measured(n, i - 1), 1, Prod(sh[n])))] :
        sh \in [Names -> Shapes]}

\* the fields of HydrationParameter that hydration.py reads; diffusivities in 1e-10 m^2/s
HydrationParameters ==
    {[field |-> Q(697, 2), slC |-> Q(200, 1), T10 |-> One, T100 |-> t100,
      smaxMod |-> sm, fitopt |-> fo,
      ksig_bulk |-> Q(477, 5000000), k_low_bulk |-> Q(183, 500000),
      tcorr_bulk |-> Q(54, 1), dH2O |-> Q(23, 1), dSL |-> Q(41, 10)] :
        t100 \in {Q(5, 2), One},
        sm \in {"tethered", "free", "bound"},
        fo \in {"linear", "2ord", "second_order"}}

\* what the installed libraries do where their versions differ: numpy.linalg.lstsq
\* on a matrix with NaN (polyfit, lines 83 and 92) raises LinAlgError or returns NaN
\* coefficients; brentq on a NaN function value (line 299) raises ValueError or
\* returns a root below the bracket.  env records which one has been seen: the
\* installation does the same every time.
LapackOnNaN == {"LinAlgError", "nan"}

Unobserved == [numpy |-> "unobserved", scipy |-> "unobserved"]

Observable(seen, outcomes) == IF seen = "unobserved" THEN outcomes ELSE {seen}

Ref(id) == [t |-> "ref", id |-> id]

NoFrame == [t |-> "none"]

NoObject == [T1 |-> Unassigned, T1_power |-> Unassigned, E |-> Unassigned,
             E_power |-> Unassigned, T1fit |-> Unassigned, results |-> Unassigned]

Init ==
    /\ \E inp \in DataInputs \cup ShapeInputs :
          heap = [id \in Calcs \X Names |-> IF id[1] = 1 THEN inp[id[2]] ELSE Unassigned]
    /\ hp \in HydrationParameters
    /\ env = Unobserved
    /\ self = [c \in Calcs |-> NoObject]
    /\ pc = [c \in Calcs |-> "new"]
    /\ err = [c \in Calcs |-> NoErr]
    /\ calls = [c \in Calcs |-> <<>>]
    /\ frame = [c \in Calcs |-> NoFrame]
    /\ lsqMemo = {}
    /\ rootMemo = {}
    /\ TopspinIdle

Deref(c, attr) == heap[self[c][attr].id]

\* an exception of _setT1p caught and passed over ("except: pass")
RaiseUnlessFitting(c, e) ==
    /\ err' = [err EXCEPT ![c] = e]
    /\ pc' = [pc EXCEPT ![c] = IF pc[c] = "_setT1p" THEN "_calcODNP" ELSE "raised"]

Raise(c, e) ==
    /\ err' = [err EXCEPT ![c] = e]
    /\ pc' = [pc EXCEPT ![c] = "raised"]

(***************************************************************************)
(* __init__, lines 43-57: validation, then the attributes                  *)
(***************************************************************************)
ConstructAssignFirst(c) ==
    /\ pc[c] = "new"
    /\ heap[<<c, "T1">>] # Unassigned
    /\ self' = [self EXCEPT ![c] =
                   [T1 |-> Ref(<<c, "T1">>), T1_power |-> Ref(<<c, "T1_power">>),
                    E |-> Ref(<<c, "E">>), E_power |-> Ref(<<c, "E_power">>),
                    T1fit |-> None, results |-> None]]
    /\ LET msg == Validate(heap[<<c, "T1">>], heap[<<c, "T1_power">>],
                           heap[<<c, "E">>], heap[<<c, "E_power">>])
       IN  IF msg # "none"
           THEN Raise(c, Exc("ValueError", "__init__", msg))
           ELSE /\ pc' = [pc EXCEPT ![c] = "_setT1p"]
                /\ UNCHANGED err
    /\ UNCHANGED <<heap, hp, env, calls, frame, lsqMemo, rootMemo>>
    /\ UNCHANGED topspin

Construct(c) ==
    /\ pc[c] = "new"
    /\ heap[<<c, "T1">>] # Unassigned
    /\ LET msg == Validate(heap[<<c, "T1">>], heap[<<c, "T1_power">>],
                           heap[<<c, "E">>], heap[<<c, "E_power">>])
       IN  IF msg # "none"
           THEN /\ Raise(c, Exc("ValueError", "__init__", msg))
                /\ UNCHANGED self
           ELSE /\ self' = [self EXCEPT ![c] =
                               [T1 |-> Ref(<<c, "T1">>), T1_power |-> Ref(<<c, "T1_power">>),
                                E |-> Ref(<<c, "E">>), E_power |-> Ref(<<c, "E_power">>),
                                T1fit |-> None, results |-> None]]
                /\ pc' = [pc EXCEPT ![c] = "_setT1p"]
                /\ UNCHANGED err
    /\ UNCHANGED <<heap, hp, env, calls, frame, lsqMemo, rootMemo>>
    /\ UNCHANGED topspin

(***************************************************************************)
(* __init__ line 59: self._setT1p()                                        *)
(***************************************************************************)
SetT1p(c) ==
    /\ pc[c] = "_setT1p"
    /\ calls' = [calls EXCEPT ![c] = Append(@, "_setT1p")]
    /\ LET Fit(lapack) == setT1p(Deref(c, "T1"), Deref(c, "T1_power"), Deref(c, "E_power"),
                                 hp, lapack)
           Outcome(r) ==
               IF r.exc # "none"
               THEN /\ Raise(c, Exc(r.exc, "_setT1p",
                                    IF r.exc = "Exception" THEN "NotImplemented T1 fitopt"
                                    ELSE IF r.exc = "ZeroDivisionError"
                                         THEN "float division by zero"
                                    ELSE "numpy"))
                    /\ UNCHANGED self
               ELSE /\ self' = [self EXCEPT ![c].T1fit = r.T1fit]
                    /\ pc' = [pc EXCEPT ![c] = "_calcODNP"]
                    /\ UNCHANGED err
           first == Fit("LinAlgError")
       IN  IF first.exc = "LinAlgError"
           THEN \E lapack \in Observable(env.numpy, LapackOnNaN) :
                   /\ env' = [env EXCEPT !.numpy = lapack]
                   /\ Outcome(Fit(lapack))
           ELSE /\ Outcome(first)
                /\ UNCHANGED env
    /\ UNCHANGED <<heap, hp, frame, lsqMemo, rootMemo>>
    /\ UNCHANGED topspin

\* a solver that starts from a fresh random point on every call
KnownNothing(memo, key) == {}

Known(memo, key) == {e[2] : e \in {m \in memo : m[1] = key}}

(***************************************************************************)
(* __init__ line 60, _calcODNP lines 116-153: up to the return (or the     *)
(* exception) of getksigsmax                                               *)
(***************************************************************************)
FitKsigSmax(c) ==
    /\ pc[c] = "_calcODNP"
    /\ calls' = [calls EXCEPT ![c] = @ \o <<"_calcODNP", "getksigsmax">>]
    /\ LET power  == Deref(c, "E_power")
           ksigsp == ksig_sp(Deref(c, "E"), self[c].T1fit, hp)
           rej    == LsqRejects(ksigsp, power)
           key    == LsqKey(ksigsp, power)
       IN  IF rej # "none"
           THEN /\ Raise(c, Exc(rej, "getksigsmax", "scipy"))
                /\ frame' = [frame EXCEPT ![c] =
                       [t |-> "failed", s_max |-> s_max(hp), ksig_sp |-> ksigsp]]
                /\ UNCHANGED lsqMemo
           ELSE \E out \in LsqOutcomes :
                   /\ Known(lsqMemo, key) \subseteq {out}
                   /\ lsqMemo' = lsqMemo \cup {<<key, out>>}
                   /\ IF ~success(out)
                      THEN /\ Raise(c, Exc("AssertionError", "getksigsmax", "assert result.success"))
                           /\ frame' = [frame EXCEPT ![c] =
                                  [t |-> "failed", s_max |-> s_max(hp), ksig_sp |-> ksigsp]]
                      ELSE /\ frame' = [frame EXCEPT ![c] =
                                  [t |-> "fit", s_max |-> s_max(hp), ksig_sp |-> ksigsp,
                                   ksig_smax |-> Scalar(out.x[1]), p_12 |-> Scalar(out.x[2])]]
                           /\ pc' = [pc EXCEPT ![c] = "getTcorr"]
                           /\ UNCHANGED err
    /\ UNCHANGED <<heap, hp, env, self, rootMemo>>
    /\ UNCHANGED topspin

(***************************************************************************)
(* _calcODNP lines 161-184: the fitted curve, k_sigma, k_rho, ksi, and the *)
(* call of getTcorr up to its return or exception                          *)
(***************************************************************************)
k_rho(h) ==
    NpDiv(NpSub(NpDiv(S(1, 1), Scalar(h.T10)), NpDiv(S(1, 1), Scalar(h.T100))),
          Scalar(h.slC))

Derived(f, power, h) ==
    LET ksigma == NpDiv(f.ksig_smax, f.s_max)
    IN  [t |-> "derived", s_max |-> f.s_max, ksig_sp |-> f.ksig_sp,
         ksig_smax |-> f.ksig_smax, p_12 |-> f.p_12,
         ksigsp_fit |-> ksigsp_model(<<f.ksig_smax.data[1], f.p_12.data[1]>>, power),
         k_sigma |-> ksigma, k_rho |-> k_rho(h),
         ksi |-> NpDiv(ksigma, k_rho(h))]

SolveTcorr(c) ==
    /\ pc[c] = "getTcorr"
    /\ calls' = [calls EXCEPT ![c] = Append(@, "getTcorr")]
    /\ LET d   == Derived(frame[c], Deref(c, "E_power"), hp)
           ksi == d.ksi.data[1]
           Return(root) ==
               /\ frame' = [frame EXCEPT ![c] = [d EXCEPT !.t = "solved"] @@ [tcorr |-> Scalar(root)]]
               /\ pc' = [pc EXCEPT ![c] = "assemble"]
               /\ UNCHANGED err
           Fail(cls, msg) ==
               /\ frame' = [frame EXCEPT ![c] = d]
               /\ Raise(c, Exc(cls, "getTcorr", msg))
       IN  IF IsNaN(ksi)
           THEN /\ \E o \in Observable(env.scipy, NaNOutcomes) :
                      /\ env' = [env EXCEPT !.scipy = o]
                      /\ IF o = "ValueError"
                         THEN Fail("ValueError", "The function value is NaN")
                         ELSE Return(BelowBracket)
                /\ UNCHANGED rootMemo
           ELSE IF SameSign(ksi)
           THEN /\ Fail("ValueError", "f(a) and f(b) must have different signs")
                /\ UNCHANGED <<env, rootMemo>>
           ELSE \E out \in RootOutcomes(ksi) :
                   /\ Known(rootMemo, ksi) \subseteq {out}
                   /\ rootMemo' = rootMemo \cup {<<ksi, out>>}
                   /\ UNCHANGED env
                   /\ IF converged(out) THEN Return(out.root)
                      ELSE Fail("AssertionError", "assert result.converged")
    /\ UNCHANGED <<heap, hp, self, lsqMemo>>
    /\ UNCHANGED topspin

(***************************************************************************)
(* _calcODNP lines 190-235: dLocal, k_low and the result mapping           *)
(***************************************************************************)
HydrationResultsUntilKsi(f, h) ==
    LET k_low == NpDiv(NpSub(NpMul(S(5, 1), f.k_rho), NpMul(S(7, 1), f.k_sigma)), S(3, 1))
    IN  [k_sigma_array |-> NpDiv(f.ksig_smax, f.s_max),
         k_sigma |-> f.k_sigma,
         ksigma_kbulk_invratio |-> NpDiv(S(1, 1), NpDiv(f.k_sigma, Scalar(h.ksig_bulk))),
         k_rho |-> f.k_rho,
         k_low |-> k_low,
         klow_klow_bulk_ratio |-> NpDiv(k_low, Scalar(h.k_low_bulk)),
         ksi |-> f.ksi]

\* dLocal with the quotient of the correlation times upside down
HydrationResultsSlowDLocal(f, h) ==
    LET dLocal == NpMul(NpDiv(f.tcorr, Scalar(h.tcorr_bulk)),
                        NpAdd(Scalar(h.dH2O), Scalar(h.dSL)))
        k_low  == NpDiv(NpSub(NpMul(S(5, 1), f.k_rho), NpMul(S(7, 1), f.k_sigma)), S(3, 1))
    IN  [k_sigma_array |-> NpDiv(f.ksig_smax, f.s_max),
         k_sigma |-> f.k_sigma,
         ksigma_kbulk_invratio |-> NpDiv(S(1, 1), NpDiv(f.k_sigma, Scalar(h.ksig_bulk))),
         k_rho |-> f.k_rho,
         k_low |-> k_low,
         klow_klow_bulk_ratio |-> NpDiv(k_low, Scalar(h.k_low_bulk)),
         ksi |-> f.ksi,
         tcorr |-> f.tcorr,
         tcorr_tcorr_bulk_ratio |-> NpDiv(f.tcorr, Scalar(h.tcorr_bulk)),
         dLocal |-> dLocal]

HydrationResults(f, h) ==
    LET dLocal == NpMul(NpDiv(Scalar(h.tcorr_bulk), f.tcorr),
                        NpAdd(Scalar(h.dH2O), Scalar(h.dSL)))
        k_low  == NpDiv(NpSub(NpMul(S(5, 1), f.k_rho), NpMul(S(7, 1), f.k_sigma)), S(3, 1))
    IN  [k_sigma_array |-> NpDiv(f.ksig_smax, f.s_max),
         k_sigma |-> f.k_sigma,
         ksigma_kbulk_invratio |-> NpDiv(S(1, 1), NpDiv(f.k_sigma, Scalar(h.ksig_bulk))),
         k_rho |-> f.k_rho,
         k_low |-> k_low,
         klow_klow_bulk_ratio |-> NpDiv(k_low, Scalar(h.k_low_bulk)),
         ksi |-> f.ksi,
         tcorr |-> f.tcorr,
         tcorr_tcorr_bulk_ratio |-> NpDiv(f.tcorr, Scalar(h.tcorr_bulk)),
         dLocal |-> dLocal]

Assemble(c) ==
    /\ pc[c] = "assemble"
    /\ self' = [self EXCEPT ![c].results = HydrationResults(frame[c], hp)]
    /\ pc' = [pc EXCEPT ![c] = "returned"]
    /\ UNCHANGED <<heap, hp, env, err, calls, frame, lsqMemo, rootMemo>>
    /\ UNCHANGED topspin

Run(c) ==
    \/ Construct(c)
    \/ SetT1p(c)
    \/ FitKsigSmax(c)
    \/ SolveTcorr(c)
    \/ Assemble(c)

Next == Run(1)

Spec == Init /\ [][Next]_vars

(***************************************************************************)
(* Two constructor calls, one after the other: the second calculator gets  *)
(* the samples of the first in another order.  The first call gets its     *)
(* series ascending in power, options _setT1p and _calcODNP know, and      *)
(* T10 # T100.                                                             *)
(***************************************************************************)
Ascending(sq) == \A i, j \in DOMAIN sq : i < j => sq[i] < sq[j]

SortedInputs ==
    {[n \in Names |->
        SeriesOf(n, IF n \in {"T1", "T1_power"} THEN ps ELSE qs)] :
        ps, qs \in {sq \in PowerSeqs : Ascending(sq)}}

KnownOptions ==
    {h \in HydrationParameters :
        h.fitopt \in {"linear", "2ord"} /\ h.smaxMod \in {"tethered", "free"} /\ h.T10 # h.T100}

Perms(n) == {f \in [1..n -> 1..n] : \A i, j \in 1..n : f[i] = f[j] => i = j}

Permuted(x, f) == Vec(Tab(LAMBDA i : x.data[f[i]], 1, size(x)))

Done(c) == pc[c] \in {"returned", "raised"}

InitPair ==
    /\ \E inp \in SortedInputs :
          heap = [id \in Calcs \X Names |-> IF id[1] = 1 THEN inp[id[2]] ELSE Unassigned]
    /\ hp \in KnownOptions
    /\ env = Unobserved
    /\ self = [c \in Calcs |-> NoObject]
    /\ pc = [c \in Calcs |-> "new"]
    /\ err = [c \in Calcs |-> NoErr]
    /\ calls = [c \in Calcs |-> <<>>]
    /\ frame = [c \in Calcs |-> NoFrame]
    /\ lsqMemo = {}
    /\ rootMemo = {}
    /\ TopspinIdle

\* the caller reorders the (T1, T1_power) pairs and the (E, E_power) pairs
Reorder ==
    /\ Done(1)
    /\ heap[<<2, "T1">>] = Unassigned
    /\ \E f \in Perms(size(heap[<<1, "T1">>])), g \in Perms(size(heap[<<1, "E">>])) :
          heap' = [id \in Calcs \X Names |->
                      IF id[1] = 1 THEN heap[id]
                      ELSE Permuted(heap[<<1, id[2]>>],
                                    IF id[2] \in {"T1", "T1_power"} THEN f ELSE g)]
    /\ UNCHANGED <<hp, env, self, pc, err, calls, frame, lsqMemo, rootMemo>>
    /\ UNCHANGED topspin

NextPair ==
    \/ Run(1)
    \/ Reorder
    \/ Run(2)

SpecPair == InitPair /\ [][NextPair]_vars

(***************************************************************************)
(* One constructor call, after which the caller assigns to the first       *)
(* element of an array it passed in (x[0] = 7.0)                           *)
(***************************************************************************)
Clobber == Q(7, 1)

CallerWrites ==
    \E n \in Names :
        /\ pc[1] = "returned"
        /\ size(heap[<<1, n>>]) >= 1
        /\ heap[<<1, n>>].data[1] # Clobber
        /\ heap' = [heap EXCEPT ![<<1, n>>].data[1] = Clobber]
        /\ UNCHANGED <<hp, env, self, pc, err, calls, frame, lsqMemo, rootMemo>>
        /\ UNCHANGED topspin

NextAlias ==
    \/ Run(1)
    \/ CallerWrites

SpecAlias == InitPair /\ [][NextAlias]_vars

(***************************************************************************)
(* One constructor call on the three-point series, for a range of spin     *)
(* label concentrations hp.slC (micromolar)                                *)
(***************************************************************************)
Concentrations == {Q(0, 1), Q(200, 1), Q(250, 1), Q(500, 1), Q(1000, 1), Q(2000, 1)}

AnyConcentration ==
    {[h EXCEPT !.slC = s] : h \in HydrationParameters, s \in Concentrations}

InitConc ==
    /\ heap = [id \in Calcs \X Names |->
                  IF id[1] = 1 THEN SeriesOf(id[2], <<0, 1, 2>>) ELSE Unassigned]
    /\ hp \in AnyConcentration
    /\ env = Unobserved
    /\ self = [c \in Calcs |-> NoObject]
    /\ pc = [c \in Calcs |-> "new"]
    /\ err = [c \in Calcs |-> NoErr]
    /\ calls = [c \in Calcs |-> <<>>]
    /\ frame = [c \in Calcs |-> NoFrame]
    /\ lsqMemo = {}
    /\ rootMemo = {}
    /\ TopspinIdle

SpecConc == InitConc /\ [][Next]_vars

(***************************************************************************)
(* dnpImport/topspin.py: import_topspin_dir(path) over a directory with    *)
(* up to two entries, each a plain file or an experiment directory holding *)
(* any of the files fid, ser, vdlist, acqus (well-formed where present)    *)
(***************************************************************************)
ExpNames == {"1", "2"}

FileNames == {"fid", "ser", "vdlist", "acqus"}

Entries ==
    {[isdir |-> FALSE, files |-> {}]}
        \cup {[isdir |-> TRUE, files |-> f] : f \in SUBSET FileNames}

\* slash: whether path ends in '/'
Disks ==
    {NoPath} \cup {[t |-> "path", slash |-> sl, entries |-> e] :
                      sl \in BOOLEAN, e \in [ExpNames -> Entries]}

\* lines 179-194, with checks of ser before fid
dir_data_type_ser_first(dirList) ==
    IF "ser" \in dirList
    THEN IF "vdlist" \in dirList THEN "ser" ELSE "serPhaseCycle"
    ELSE IF "fid" \in dirList THEN "fid"
    ELSE ""

\* lines 179-194
dir_data_type(dirList) ==
    IF "fid" \in dirList THEN "fid"
    ELSE IF "ser" \in dirList
         THEN IF "vdlist" \in dirList THEN "ser" ELSE "serPhaseCycle"
    ELSE ""

\* the three loaders start with load_acqu, which opens path + str(expNum) + '/' +
\* paramFilename (line 131): the file is found when path ends in '/' and the
\* directory holds acqus
load_acqu(d, expNum) ==
    IF d.slash /\ "acqus" \in d.entries[expNum].files THEN "none" ELSE "FileNotFoundError"

Loaded(loader, d, expNum) ==
    [loader |-> loader, exc |-> load_acqu(d, expNum),
     data |-> [by |-> loader, expNum |-> expNum]]

\* lines 196-217
import_topspin(d, expNum) ==
    IF dir_data_type(d.entries[expNum].files) = "fid"
    THEN Loaded("topspin_fid", d, expNum)
    ELSE IF dir_data_type(d.entries[expNum].files) = "ser"
    THEN Loaded("import_ser", d, expNum)
    ELSE IF dir_data_type(d.entries[expNum].files) = "serPhaseCycle"
    THEN Loaded("topspin_ser_phase_cycle", d, expNum)
    ELSE [loader |-> "none", exc |-> "ValueError", data |-> None]

hydration == <<heap, hp, env, self, pc, err, calls, frame, lsqMemo, rootMemo>>

InitTopspin ==
    /\ heap = [id \in Calcs \X Names |-> Unassigned]
    /\ hp = CHOOSE h \in HydrationParameters : TRUE
    /\ env = Unobserved
    /\ self = [c \in Calcs |-> NoObject]
    /\ pc = [c \in Calcs |-> "new"]
    /\ err = [c \in Calcs |-> NoErr]
    /\ calls = [c \in Calcs |-> <<>>]
    /\ frame = [c \in Calcs |-> NoFrame]
    /\ lsqMemo = {}
    /\ rootMemo = {}
    /\ disk \in Disks
    /\ dirFiles = {}
    /\ dataDict = {}
    /\ imported = {}
    /\ tpc = "call"

\* lines 462-464: os.listdir(path), filtered by os.path.isdir
ListExperiments ==
    /\ tpc = "call"
    /\ IF disk = NoPath
       THEN /\ tpc' = "raised"
            /\ UNCHANGED dirFiles
       ELSE /\ dirFiles' = {x \in ExpNames : disk.entries[x].isdir}
            /\ tpc' = "loop"
    /\ UNCHANGED <<disk, dataDict, imported>>
    /\ UNCHANGED hydration

\* lines 465-471: one turn of the loop, in whatever order listdir gave
ImportNext ==
    /\ tpc = "loop"
    /\ \E expNum \in dirFiles :
          /\ dirFiles' = dirFiles \ {expNum}
          /\ imported' = imported \cup
                 {[expNum |-> expNum, loader |-> import_topspin(disk, expNum).loader,
                   exc |-> import_topspin(disk, expNum).exc]}
          /\ dataDict' = IF import_topspin(disk, expNum).exc = "none"
                         THEN dataDict \cup {<<expNum, import_topspin(disk, expNum).data>>}
                         ELSE dataDict
    /\ UNCHANGED <<disk, tpc>>
    /\ UNCHANGED hydration

\* line 472
ReturnDict ==
    /\ tpc = "loop"
    /\ dirFiles = {}
    /\ tpc' = "returned"
    /\ UNCHANGED <<disk, dirFiles, dataDict, imported>>
    /\ UNCHANGED hydration

NextTopspin ==
    \/ ListExperiments
    \/ ImportNext
    \/ ReturnDict

SpecTopspin == InitTopspin /\ [][NextTopspin]_vars

(***************************************************************************)
(* Vocabulary of the properties                                            *)
(***************************************************************************)
ValidationMessages ==
    {"T1, T1_power, E and E_power must be 1 dimension",
     "T1 and T1_power must have same length",
     "E and E_power must have same length"}

\* the error the validation of __init__ raises
InputShapeError(e) == e.cls = "ValueError" /\ e.msg \in ValidationMessages

\* the exception class of the input-shape error
InputShapeKind == "ValueError"

UnsupportedConfiguration(e) == e.cls = "Exception" /\ e.msg = "NotImplemented T1 fitopt"

Given(c) == heap[<<c, "T1">>] # Unassigned

Arg(c, n) == heap[<<c, n>>]

\* len(x) is defined for arrays of one or more dimensions
LenDiffers(x, y) == ndim(x) >= 1 /\ ndim(y) >= 1 /\ x.shape[1] # y.shape[1]

MismatchedLengths(c) ==
    LenDiffers(Arg(c, "T1"), Arg(c, "T1_power")) \/ LenDiffers(Arg(c, "E"), Arg(c, "E_power"))

ResultKeys ==
    {"k_sigma", "k_sigma_array", "ksigma_kbulk_invratio", "k_rho", "k_low",
     "klow_klow_bulk_ratio", "ksi", "tcorr", "tcorr_tcorr_bulk_ratio", "dLocal"}

NoMapping(c) == self[c].results \in {Unassigned, None}

Invoked(c, stage) == \E i \in DOMAIN calls[c] : calls[c][i] = stage

\* four 1-dimensional series of two or more samples
Regular(c) == Given(c) /\ \A n \in Names : ndim(Arg(c, n)) = 1 /\ size(Arg(c, n)) >= 2

(***************************************************************************)
(* C1: a constructor call with len(T1) # len(T1_power) or len(E) #         *)
(* len(E_power) ends in the input-shape error, whatever the other inputs   *)
(* and the HydrationParameter fields are.                                  *)
(***************************************************************************)
C1_MismatchedLengthsRejected ==
    \A c \in Calcs :
        Given(c) /\ MismatchedLengths(c) /\ pc[c] # "new"
            => pc[c] = "raised" /\ err[c].at = "__init__" /\ InputShapeError(err[c])

\* mismatched lengths, an unknown T1 model string and T10 = T100 together
C1_Witness ==
    /\ MismatchedLengths(1)
    /\ hp.fitopt = "second_order"
    /\ hp.T10 = hp.T100
    /\ pc[1] = "raised"
    /\ err[1].msg = "E and E_power must have same length"

(***************************************************************************)
(* C2: a constructor call in which one of T1, T1_power, E, E_power is not  *)
(* exactly 1-dimensional (0-dimensional, or 2 or more dimensions) ends in  *)
(* the input-shape error.                                                  *)
(***************************************************************************)
C2_NotOneDimensionalRejected ==
    \A c \in Calcs :
        Given(c) /\ (\E n \in Names : ndim(Arg(c, n)) # 1) /\ pc[c] # "new"
            => pc[c] = "raised" /\ InputShapeError(err[c])

(***************************************************************************)
(* C3: when a run has ended in the input-shape error, none of _setT1p,     *)
(* getksigsmax and getTcorr has been invoked and neither T1fit nor results *)
(* has been assigned.                                                      *)
(***************************************************************************)
C3_ValidationBeforeStages ==
    \A c \in Calcs :
        pc[c] = "raised" /\ InputShapeError(err[c])
            => /\ calls[c] = <<>>
               /\ self[c].T1fit = Unassigned
               /\ self[c].results = Unassigned

\* an input-shape error on series of more than one dimension
C3_Witness ==
    /\ pc[1] = "raised"
    /\ err[1].msg = "T1, T1_power, E and E_power must be 1 dimension"
    /\ calls[1] = <<>>
    /\ self[1].T1fit = Unassigned

(***************************************************************************)
(* C4: 'linear' and 'second_order' select a T1 model and do not raise;     *)
(* every other T1 model string, and every saturation model string other    *)
(* than 'tethered' and 'free', ends the constructor call in the            *)
(* unsupported-configuration error at the point the model is selected      *)
(* (stated for calls on 1-dimensional series of two or more samples).      *)
(***************************************************************************)
C4_ModelSelectionTotal ==
    \A c \in Calcs :
        Regular(c) =>
        /\ hp.fitopt \in {"linear", "second_order"}
              => ~(pc[c] = "raised" /\ UnsupportedConfiguration(err[c]))
        /\ hp.fitopt \notin {"linear", "second_order"} /\ Invoked(c, "_setT1p")
              => pc[c] = "raised" /\ err[c].at = "_setT1p" /\ UnsupportedConfiguration(err[c])
        /\ hp.smaxMod \notin {"tethered", "free"} /\ Invoked(c, "_calcODNP")
              => pc[c] = "raised" /\ UnsupportedConfiguration(err[c])

(***************************************************************************)
(* C5: in every result mapping, k_sigma_array is a 1-dimensional array     *)
(* with len(E) elements and every other entry is a scalar.                 *)
(***************************************************************************)
C5_KSigmaArrayLength ==
    \A c \in Calcs :
        pc[c] = "returned"
            => /\ self[c].results.k_sigma_array.shape = <<size(Deref(c, "E"))>>
               /\ \A k \in ResultKeys \ {"k_sigma_array"} : self[c].results[k].shape = <<>>

(***************************************************************************)
(* C6: a constructor call on the same (T1, T1_power) pairs and the same    *)
(* (E, E_power) pairs in another order ends as the call on the ascending   *)
(* series does, with the same values in the result.                        *)
(***************************************************************************)
C6_PermutationInvariant ==
    Done(1) /\ Done(2)
        => pc[1] = pc[2] /\ err[1] = err[2] /\ self[1].results = self[2].results

(***************************************************************************)
(* C7: results is unset or a mapping with exactly the ten keys, and a      *)
(* constructor call that raised has left no result mapping.                *)
(***************************************************************************)
C7_ResultsNeverPartial ==
    \A c \in Calcs :
        /\ NoMapping(c) \/ DOMAIN self[c].results = ResultKeys
        /\ pc[c] = "raised" => NoMapping(c)
        /\ pc[c] = "returned" => ~NoMapping(c)

\* a returned call whose mapping has the ten keys
C7_Witness ==
    /\ pc[1] = "returned"
    /\ DOMAIN self[1].results = ResultKeys
    /\ AllFinite(self[1].results.tcorr)

(***************************************************************************)
(* C8: with k_rho = 0 (T10 = T100) or s_max = 0 the constructor call ends  *)
(* before the root solve, and no k_sigma or ksi that is infinite or NaN is *)
(* handed to getTcorr or stored in the result.                             *)
(***************************************************************************)
C8_ZeroDenominatorGuarded ==
    \A c \in Calcs :
        /\ k_rho(hp) = S(0, 1) \/ s_max(hp) = S(0, 1) => ~Invoked(c, "getTcorr")
        /\ frame[c].t \in {"derived", "solved"}
              => AllFinite(frame[c].k_sigma) /\ AllFinite(frame[c].ksi)
        /\ pc[c] = "returned"
              => AllFinite(self[c].results.k_sigma) /\ AllFinite(self[c].results.ksi)

(***************************************************************************)
(* C9: when least_squares reports no success for the samples of a          *)
(* calculator, the constructor call has raised, at getksigsmax, an         *)
(* exception whose class is not that of the input-shape error; getTcorr    *)
(* has not been invoked and there is no result mapping.                    *)
(***************************************************************************)
FitFailed(c) ==
    /\ Invoked(c, "getksigsmax")
    /\ \E m \in lsqMemo :
          /\ m[1] = LsqKey(ksig_sp(Deref(c, "E"), self[c].T1fit, hp), Deref(c, "E_power"))
          /\ ~m[2].success

C9_FitFailureFatalAndDistinct ==
    \A c \in Calcs :
        FitFailed(c)
            => /\ pc[c] = "raised"
               /\ err[c].at = "getksigsmax"
               /\ err[c].cls # InputShapeKind
               /\ ~InputShapeError(err[c])
               /\ ~Invoked(c, "getTcorr")
               /\ NoMapping(c)

C9_Witness ==
    /\ FitFailed(1)
    /\ pc[1] = "raised"
    /\ err[1] = Exc("AssertionError", "getksigsmax", "assert result.success")

(***************************************************************************)
(* C10: when the root solve produces no root (brentq does not converge, or *)
(* get_ksi(tcorr) - ksi has the same sign at both ends of the bracket),    *)
(* the constructor call has raised an exception whose class is not that of *)
(* the input-shape error, and there is no result mapping (stated for a     *)
(* finite ksi).                                                            *)
(***************************************************************************)
C10_RootSolveFailureDistinct ==
    \A c \in Calcs :
        (/\ pc[c] = "raised"
         /\ err[c].at = "getTcorr"
         /\ AllFinite(frame[c].ksi)
         /\ err[c].msg \in {"assert result.converged", "f(a) and f(b) must have different signs"})
            => err[c].cls # InputShapeKind /\ NoMapping(c)

(***************************************************************************)
(* C11: the p_12 of every call that returned (with T10 # T100) is strictly *)
(* positive, and a call whose E_power is all zeros returns no result.      *)
(***************************************************************************)
AllZero(x) == ndim(x) = 1 /\ size(x) >= 1 /\ \A i \in 1..size(x) : x.data[i] = Zero

Scenario(c) ==
    /\ Given(c)
    /\ \A n \in Names : Arg(c, n) = SeriesOf(n, <<0, 1, 2>>)
    /\ hp.T10 = One /\ hp.T100 = Q(5, 2) /\ hp.slC = Q(200, 1)
    /\ hp.smaxMod = "tethered" /\ hp.fitopt = "linear"

C12_ScenarioKRho ==
    \A c \in Calcs :
        Scenario(c) /\ pc[c] = "returned"
            => /\ frame[c].s_max = S(1, 1)
               /\ self[c].results.k_rho =
                     NpDiv(NpSub(NpDiv(S(1, 1), Scalar(hp.T10)), NpDiv(S(1, 1), Scalar(hp.T100))),
                           NpMul(Scalar(hp.slC), S(1, 1000000)))
               /\ \A k \in ResultKeys : AllFinite(self[c].results[k])

(***************************************************************************)
(* C13: with the tethered model s_max is exactly 1 at every concentration  *)
(* and k_sigma equals ksig_smax; with the free model s_max equals          *)
(* 1 - 2/(3 + 3*slC*1e-6*198.7), here in the form (1 + 3x)/(3 + 3x) with   *)
(* x = slC*198.7e-6, and is strictly below 1.                              *)
(***************************************************************************)
FreeSmax(slC) ==
    RDiv(RAdd(One, RMul(Q(3, 1), RMul(slC, Q(1987, 10000000)))),
         RAdd(Q(3, 1), RMul(Q(3, 1), RMul(slC, Q(1987, 10000000)))))

C13_SmaxByModel ==
    \A c \in Calcs :
        /\ (frame[c].t # "none" /\ hp.smaxMod = "tethered")
              => frame[c].s_max = Scalar(One)
        /\ (frame[c].t \in {"derived", "solved"} /\ hp.smaxMod = "tethered")
              => frame[c].k_sigma = frame[c].ksig_smax
        /\ (frame[c].t # "none" /\ hp.smaxMod = "free")
              => /\ frame[c].s_max = Scalar(FreeSmax(hp.slC))
                 /\ RLt(frame[c].s_max.data[1], One)

C13_Witness ==
    \E c \in Calcs :
        /\ frame[c].t = "derived"
        /\ hp.smaxMod = "free"
        /\ hp.slC = Q(2000, 1)
        /\ frame[c].k_sigma # frame[c].ksig_smax

(***************************************************************************)
(* C14: once the constructor has returned, no step (in particular no       *)
(* assignment of the caller to an array it passed in) changes the four     *)
(* series the calculator holds, its T1fit or its results.                  *)
(***************************************************************************)
C14_OwnsCopies ==
    [][\A c \in Calcs :
          pc[c] = "returned"
              => /\ \A n \in Names : Deref(c, n)' = Deref(c, n)
                 /\ self'[c].T1fit = self[c].T1fit
                 /\ self'[c].results = self[c].results]_vars

(***************************************************************************)
(* C15: two constructor calls on identical series and the same hp end the  *)
(* same way: both raise an error of the same class at the same place, or   *)
(* both return and their results are equal key by key.                     *)
(***************************************************************************)
SameArguments == \A n \in Names : heap[<<2, n>>] = heap[<<1, n>>]

Tabulated == {BracketLo, BracketHi, BelowBracket}

Stages == <<"_setT1p", "_calcODNP", "getksigsmax", "getTcorr">>

InOrder(c) ==
    /\ Len(calls[c]) <= Len(Stages)
    /\ calls[c] = SubSeq(Stages, 1, Len(calls[c]))
    /\ pc[c] \in {"_calcODNP", "getTcorr", "assemble", "returned"}
          => self[c].T1fit.t = "ndarray"
    /\ ~NoMapping(c)
          => /\ self[c].T1fit.t = "ndarray"
             /\ calls[c] = Stages
             /\ frame[c].t = "solved"
    /\ (pc[c] = "raised" /\ err[c].at = "__init__") => calls[c] = <<>>
    /\ (pc[c] = "raised" /\ err[c].at # "__init__")
          => calls[c] # <<>> /\ calls[c][Len(calls[c])] = err[c].at

C17_StageOrder ==
    [][\A c \in Calcs :
          /\ InOrder(c)'
          /\ pc[c] = "raised"
                => calls'[c] = calls[c] /\ self'[c] = self[c] /\ pc'[c] = "raised"]_vars

\* the root solve failed after the two stages before it had succeeded
C17_Witness ==
    \E c \in Calcs :
        /\ pc[c] = "raised"
        /\ err[c].at = "getTcorr"
        /\ calls[c] = Stages
        /\ self[c].T1fit.t = "ndarray"
        /\ self[c].results = None

(***************************************************************************)
(* C18: for four 1-dimensional series with matching lengths, once _setT1p  *)
(* has run, under the linear or the second_order model T1fit is an array   *)
(* of exactly len(E) elements, whatever the length of the T1 series; under *)
(* any other model string there is no T1fit and the run has failed with    *)
(* the unrecognized-option error.                                          *)
(***************************************************************************)
ShapeValid(c) ==
    /\ Given(c)
    /\ \A n \in Names : ndim(Arg(c, n)) = 1
    /\ ~MismatchedLengths(c)

T1Models == {"linear", "second_order"}

C18_T1fitLength ==
    \A c \in Calcs :
        (ShapeValid(c) /\ Invoked(c, "_setT1p"))
            => IF hp.fitopt \in T1Models
               THEN /\ self[c].T1fit.t = "ndarray"
                    /\ self[c].T1fit.shape = <<size(Arg(c, "E"))>>
               ELSE /\ self[c].T1fit.t # "ndarray"
                    /\ pc[c] = "raised"
                    /\ UnsupportedConfiguration(err[c])

(***************************************************************************)
(* C19: the entries of a stored result mapping satisfy, among themselves   *)
(* and with the fitted ksig_smax, s_max and the bulk constants of hp:      *)
(* k_sigma = ksig_smax / s_max, ksi = k_sigma / k_rho,                     *)
(* k_low = (5 k_rho - 7 k_sigma) / 3, ksigma_kbulk_invratio = ksig_bulk /  *)
(* k_sigma, klow_klow_bulk_ratio = k_low / k_low_bulk,                     *)
(* tcorr_tcorr_bulk_ratio = tcorr / tcorr_bulk and                         *)
(* dLocal = (tcorr_bulk / tcorr) (dH2O + dSL).                             *)
(***************************************************************************)
C19_DefiningRelations ==
    \A c \in Calcs :
        ~NoMapping(c)
            => /\ self[c].results.k_sigma = NpDiv(frame[c].ksig_smax, frame[c].s_max)
               /\ self[c].results.ksi =
                     NpDiv(self[c].results.k_sigma, self[c].results.k_rho)
               /\ self[c].results.k_low =
                     NpDiv(NpSub(NpMul(S(5, 1), self[c].results.k_rho),
                                 NpMul(S(7, 1), self[c].results.k_sigma)), S(3, 1))
               /\ self[c].results.ksigma_kbulk_invratio =
                     NpDiv(Scalar(hp.ksig_bulk), self[c].results.k_sigma)
               /\ self[c].results.klow_klow_bulk_ratio =
                     NpDiv(self[c].results.k_low, Scalar(hp.k_low_bulk))
               /\ self[c].results.tcorr_tcorr_bulk_ratio =
                     NpDiv(self[c].results.tcorr, Scalar(hp.tcorr_bulk))
               /\ self[c].results.dLocal =
                     NpMul(NpDiv(Scalar(hp.tcorr_bulk), self[c].results.tcorr),
                           NpAdd(Scalar(hp.dH2O), Scalar(hp.dSL)))

\* a mapping of finite values with tcorr other than tcorr_bulk, under the free model
C19_Witness ==
    \E c \in Calcs :
        /\ ~NoMapping(c)
        /\ hp.smaxMod = "free"
        /\ \A k \in ResultKeys : AllFinite(self[c].results[k])
        /\ self[c].results.tcorr # Scalar(hp.tcorr_bulk)
        /\ self[c].results.k_sigma # Scalar(Zero)

C21_FreeSmaxRange ==
    \A c \in Calcs :
        (frame[c].t # "none" /\ hp.smaxMod = "free" /\ RLe(Zero, hp.slC))
            => /\ RLe(Q(1, 3), frame[c].s_max.data[1])
               /\ RLt(frame[c].s_max.data[1], One)
               /\ frame[c].s_max.data[1] # Zero
               /\ (frame[c].t \in {"derived", "solved"} /\ AllFinite(frame[c].ksig_smax))
                     => AllFinite(frame[c].k_sigma)

\* the lower end: slC = 0 gives exactly 1/3
C21_Witness ==
    \E c \in Calcs :
        /\ hp.smaxMod = "free"
        /\ hp.slC = Zero
        /\ frame[c].t # "none"
        /\ frame[c].s_max = S(1, 3)

(***************************************************************************)
(* C22: in the linear model the back-transform of line 95 undoes the       *)
(* transform of line 90: wherever u = 1/(1/T1 - 1/T10 + 1/T100) is finite, *)
(* u/(1 + u/T10 - u/T100) is T1 again; and with two T1 samples at two      *)
(* powers, T1fit at an enhancement power that is one of the two T1 powers  *)
(* equals the T1 measured there.                                           *)
(***************************************************************************)
TwoPointLine(c) ==
    /\ ShapeValid(c)
    /\ hp.fitopt = "linear"
    /\ size(Arg(c, "T1")) = 2
    /\ Arg(c, "T1_power").data[1] # Arg(c, "T1_power").data[2]
    /\ self[c].T1fit.t = "ndarray"

C22_LinearBackTransform ==
    \A c \in Calcs :
        /\ (Given(c) /\ AllFinite(linearT1(Arg(c, "T1"), Scalar(hp.T10), Scalar(hp.T100))))
              => intT1_linear(linearT1(Arg(c, "T1"), Scalar(hp.T10), Scalar(hp.T100)),
                              Scalar(hp.T10), Scalar(hp.T100)) = Arg(c, "T1")
        /\ TwoPointLine(c)
              => \A i \in 1..size(Arg(c, "E_power")), j \in 1..2 :
                    Arg(c, "E_power").data[i] = Arg(c, "T1_power").data[j]
                        => self[c].T1fit.data[i] = Arg(c, "T1").data[j]

\* two T1 samples that differ, T10 # T100, and an enhancement taken at a T1 power
C22_Witness ==
    \E c \in Calcs :
        /\ TwoPointLine(c)
        /\ hp.T10 # hp.T100
        /\ Arg(c, "T1").data[1] # Arg(c, "T1").data[2]
        /\ linearT1(Arg(c, "T1"), Scalar(hp.T10), Scalar(hp.T100)) # Arg(c, "T1")
        /\ \E i \in 1..size(Arg(c, "E_power")) :
              /\ Arg(c, "E_power").data[i] = Arg(c, "T1_power").data[2]
              /\ self[c].T1fit.data[i] = Arg(c, "T1").data[2]

(***************************************************************************)
(* C23: every import_topspin call made for a directory holding fid went to *)
(* topspin_fid, also when ser is there too; with ser and vdlist (no fid)   *)
(* to import_ser; with ser alone to topspin_ser_phase_cycle; with neither  *)
(* fid nor ser it called no loader and raised ValueError.  The dictionary  *)
(* of import_topspin_dir holds exactly the visited sub-directories whose   *)
(* import raised nothing, and no import error leaves import_topspin_dir.   *)
(***************************************************************************)
FilesOf(expNum) == disk.entries[expNum].files

C23_TopspinDispatch ==
    /\ \A r \in imported :
          /\ "fid" \in FilesOf(r.expNum) => r.loader = "topspin_fid"
          /\ ("fid" \notin FilesOf(r.expNum) /\ {"ser", "vdlist"} \subseteq FilesOf(r.expNum))
                => r.loader = "import_ser"
          /\ ("fid" \notin FilesOf(r.expNum) /\ "ser" \in FilesOf(r.expNum)
                /\ "vdlist" \notin FilesOf(r.expNum))
                => r.loader = "topspin_ser_phase_cycle"
          /\ ("fid" \notin FilesOf(r.expNum) /\ "ser" \notin FilesOf(r.expNum))
                => r.loader = "none" /\ r.exc = "ValueError"
          /\ disk.entries[r.expNum].isdir
    /\ {e[1] : e \in dataDict} = {r.expNum : r \in {q \in imported : q.exc = "none"}}
    /\ \A e \in dataDict : e[2].expNum = e[1]
    /\ tpc = "raised" => imported = {} /\ disk = NoPath
    /\ tpc = "returned"
          => {r.expNum : r \in imported} = {x \in ExpNames : disk.entries[x].isdir}

\* a directory with fid and ser was loaded by topspin_fid and is in the dictionary,
\* the other one held neither, raised ValueError and is not
C23_Witness ==
    /\ tpc = "returned"
    /\ \E r \in imported :
          /\ {"fid", "ser"} \subseteq FilesOf(r.expNum)
          /\ r.loader = "topspin_fid"
          /\ r.expNum \in {e[1] : e \in dataDict}
    /\ \E r \in imported :
          /\ r.exc = "ValueError"
          /\ r.expNum \notin {e[1] : e \in dataDict}

====
